---- MODULE Spec2Model ----
(***************************************************************************)
(* Conversation-state engine of the chat client in src/app/page.tsx        *)
(* (component HomePage): the conversation collection, the active pointer,  *)
(* the send protocol around the gateway call, and the localStorage mirror. *)
(*                                                                         *)
(* Encoding of JavaScript values.  A string is the tuple of its            *)
(* characters (one-character TLA+ strings), so that trim, slice, join and  *)
(* toLowerCase are computed and not assumed.  A value that is no string    *)
(* (null, undefined) is a one-element tuple whose element is a word of     *)
(* several letters, which no string can be.                                *)
(***************************************************************************)
EXTENDS Integers, Sequences, FiniteSets, TLC

\* ------------------------------------------------------------------ bounds
\* Largest number of steps of one behaviour that create something: a
\* conversation, an accepted send, a millisecond of time, a page reload.
MaxSteps == 4

\* Largest number of messages of a conversation found in the store when the
\* composer is examined on its own.
MaxHistory == 12

\* Largest number of conversations found in the store when the filter is
\* examined on its own.
MaxStored == 3

\* ------------------------------------------------- program constants
\* messageText.slice(0, 50)
TitleLen == 50
\* conversationHistory.slice(-10)
ContextWindow == 10

AGENT_ID == "6939a09c5a8dda74db9ccca4"
USER_ID == "chatbot-user"

NEW_CONVERSATION ==
  << "N","e","w"," ","C","o","n","v","e","r","s","a","t","i","o","n" >>

ERROR_MARKER ==
  << "E","r","r","o","r" >>

APOLOGY ==
  <<
    "S","o","r","r","y",","," ","a","n"," ","e","r","r","o","r"," ","o","c","c","u","r","r","e","d",
    " ","w","h","i","l","e"," ","p","r","o","c","e","s","s","i","n","g"," ","y","o","u","r"," ","m",
    "e","s","s","a","g","e","."," ","P","l","e","a","s","e"," ","t","r","y"," ","a","g","a","i","n",
    "." >>

NO_RESPONSE ==
  << "N","o"," ","r","e","s","p","o","n","s","e"," ","r","e","c","e","i","v","e","d" >>

ERROR_PROCESSING ==
  <<
    "E","r","r","o","r"," ","p","r","o","c","e","s","s","i","n","g"," ","r","e","q","u","e","s","t" >>

STARTER_PROMPTS ==
  << << "W","h","a","t"," ","i","s"," ","m","a","c","h","i","n","e"," ","l","e","a","r","n","i","n","g",
       "?" >>,
    << "H","o","w"," ","c","a","n"," ","I"," ","i","m","p","r","o","v","e"," ","m","y"," ","p","r","o",
       "d","u","c","t","i","v","i","t","y","?" >>,
    << "E","x","p","l","a","i","n"," ","q","u","a","n","t","u","m"," ","c","o","m","p","u","t","i","n",
       "g"," ","i","n"," ","s","i","m","p","l","e"," ","t","e","r","m","s" >>,
    << "W","h","a","t"," ","a","r","e"," ","b","e","s","t"," ","p","r","a","c","t","i","c","e","s"," ",
       "f","o","r"," ","w","e","b"," ","d","e","v","e","l","o","p","m","e","n","t","?" >> >>

\* ------------------------------------------------- JavaScript values
Null == << "null" >>
Undefined == << "undefined" >>
EmptyString == << >>
\* A value that is neither a string nor falsy: an object or an array.
Structured == << "object" >>

\* !!v for the values the model uses: null, undefined and '' are falsy.
Truthy(v) == v # Null /\ v # Undefined /\ v # EmptyString

\* typeof v === 'string'
IsString(v) == v # Null /\ v # Undefined /\ v # Structured

Whitespace == { " ", "\n", "\t" }

RECURSIVE TrimStart(_)
TrimStart(s) ==
  IF s # << >> /\ Head(s) \in Whitespace THEN TrimStart(Tail(s)) ELSE s

RECURSIVE TrimEnd(_)
TrimEnd(s) ==
  IF s # << >> /\ s[Len(s)] \in Whitespace
  THEN TrimEnd(SubSeq(s, 1, Len(s) - 1))
  ELSE s

\* String.prototype.trim
Trim(s) == TrimEnd(TrimStart(s))

\* s.slice(0, n) for n >= 0
SliceHead(s, n) == SubSeq(s, 1, IF Len(s) < n THEN Len(s) ELSE n)

\* A slice that keeps the whole array.
SliceTailWhole(a, n) == a

\* a.slice(-n) for n > 0
SliceTail(a, n) == SubSeq(a, IF Len(a) > n THEN Len(a) - n + 1 ELSE 1, Len(a))

\* lines.join(sep)
RECURSIVE Join(_, _)
Join(lines, sep) ==
  IF lines = << >> THEN << >>
  ELSE IF Len(lines) = 1 THEN lines[1]
  ELSE lines[1] \o sep \o Join(Tail(lines), sep)

Digit(d) == << "0","1","2","3","4","5","6","7","8","9" >>[d + 1]

\* Number.prototype.toString for n >= 0
RECURSIVE NumToString(_)
NumToString(n) ==
  IF n < 10 THEN << Digit(n) >> ELSE NumToString(n \div 10) \o << Digit(n % 10) >>

\* Date.prototype.toISOString of the instant n milliseconds after the epoch,
\* for n < 1000: "1970-01-01T00:00:00.nnnZ".
ToISOString(n) ==
  << "1","9","7","0","-","0","1","-","0","1","T","0","0",":","0","0",":","0","0","." >>
  \o << Digit(n \div 100), Digit((n \div 10) % 10), Digit(n % 10) >> \o << "Z" >>

\* ------------------------------------------------------------ inputs
BLANK == << " "," " >>
\* A text one character longer than a title can be.
LONG == [i \in 1..(TitleLen + 1) |-> IF i <= TitleLen THEN "x" ELSE "y"]

\* Texts the user types into the input box.
InputTexts == { LONG }

\* Texts sendMessage is called with when it is called directly.
CallTexts == { BLANK, LONG }

\* The starter prompts the user clicks: the handler is the same for all four,
\* which differ in their text only.
ClickedPrompts == { STARTER_PROMPTS[1] }

\* Texts the user types into the search box.
Queries == { EmptyString, << "H" >> }

UpperLetters ==
  << "A","B","C","D","E","F","G","H","I","J","K","L","M",
     "N","O","P","Q","R","S","T","U","V","W","X","Y","Z" >>

LowerLetters ==
  << "a","b","c","d","e","f","g","h","i","j","k","l","m",
     "n","o","p","q","r","s","t","u","v","w","x","y","z" >>

LowerChar(c) ==
  IF \E k \in 1..Len(UpperLetters) : UpperLetters[k] = c
  THEN LowerLetters[CHOOSE k \in 1..Len(UpperLetters) : UpperLetters[k] = c]
  ELSE c

\* A conversion that leaves the case as it is.
ToLowerCaseKept(s) == s

\* String.prototype.toLowerCase
ToLowerCase(s) == [i \in 1..Len(s) |-> LowerChar(s[i])]

\* String.prototype.includes
Includes(s, sub) ==
  \E i \in 0..(Len(s) - Len(sub)) : SubSeq(s, i + 1, i + Len(sub)) = sub

\* a || b
Or(a, b) == IF Truthy(a) THEN a ELSE b

\* ----------------------------------------------------- data model
\* interface Message, built for a user turn at clock reading t.
UserMessage(t, messageText) ==
  [ id |-> NumToString(t), text |-> messageText, sender |-> "user",
    timestamp |-> ToISOString(t) ]

\* The agent turn built at clock reading t.
AgentMessage(t, agentResponseText) ==
  [ id |-> NumToString(t + 1), text |-> agentResponseText, sender |-> "agent",
    timestamp |-> ToISOString(t) ]

\* The error placeholder built at clock reading t.
ErrorMessage(t) ==
  [ id |-> NumToString(t + 2), text |-> APOLOGY, sender |-> "agent",
    timestamp |-> ToISOString(t) ]

\* interface Conversation, as createNewConversation builds it at reading t.
NewConversation(t) ==
  [ id |-> NumToString(t), title |-> NEW_CONVERSATION, messages |-> << >>,
    createdAt |-> ToISOString(t), lastMessage |-> EmptyString ]

\* The object the first setConversations updater returns for the target.
WithUserMessage(conv, userMessage, messageText) ==
  [ conv EXCEPT !.messages = Append(conv.messages, userMessage),
                !.lastMessage = messageText,
                !.title = IF Len(conv.messages) = 0
                          THEN SliceHead(messageText, TitleLen)
                          ELSE conv.title ]

\* An agent append that updates the preview and loses the message.
WithAgentMessageLost(conv, agentMessage, agentResponseText) ==
  [ conv EXCEPT !.lastMessage = agentResponseText ]

\* An agent append that leaves the preview as it was.
WithAgentMessageStalePreview(conv, agentMessage, agentResponseText) ==
  [ conv EXCEPT !.messages = Append(conv.messages, agentMessage) ]

\* The object the success-path updater returns for the target.
WithAgentMessage(conv, agentMessage, agentResponseText) ==
  [ conv EXCEPT !.messages = Append(conv.messages, agentMessage),
                !.lastMessage = agentResponseText ]

\* An error append that replaces the history by the placeholder.
WithErrorMessageReplacing(conv, errorMessage) ==
  [ conv EXCEPT !.messages = << errorMessage >>,
                !.lastMessage = ERROR_MARKER ]

\* An error append that previews the placeholder's text.
WithErrorMessageMirrored(conv, errorMessage) ==
  [ conv EXCEPT !.messages = Append(conv.messages, errorMessage),
                !.lastMessage = errorMessage.text ]

\* The object the catch-path updater returns for the target.
WithErrorMessage(conv, errorMessage) ==
  [ conv EXCEPT !.messages = Append(conv.messages, errorMessage),
                !.lastMessage = ERROR_MARKER ]

\* prev.map(conv => conv.id === id ? <user append> : conv)
MapUser(prev, id, userMessage, messageText) ==
  [ i \in 1..Len(prev) |->
      IF prev[i].id = id
      THEN WithUserMessage(prev[i], userMessage, messageText)
      ELSE prev[i] ]

\* prev.map(conv => conv.id === id ? <agent append> : conv)
MapAgent(prev, id, agentMessage, agentResponseText) ==
  [ i \in 1..Len(prev) |->
      IF prev[i].id = id
      THEN WithAgentMessage(prev[i], agentMessage, agentResponseText)
      ELSE prev[i] ]

\* prev.map(conv => conv.id === id ? <error append> : conv)
MapError(prev, id, errorMessage) ==
  [ i \in 1..Len(prev) |->
      IF prev[i].id = id THEN WithErrorMessage(prev[i], errorMessage) ELSE prev[i] ]

\* conversations.find(c => c.id === id)?.messages || []
HistoryOf(convs, id) ==
  IF \E i \in 1..Len(convs) : convs[i].id = id
  THEN convs[CHOOSE i \in 1..Len(convs) :
               /\ convs[i].id = id
               /\ \A j \in 1..(i - 1) : convs[j].id # id].messages
  ELSE << >>

\* `${msg.sender === 'user' ? 'User' : 'Assistant'}: ${msg.text}`
ContextLine(msg) ==
  (IF msg.sender = "user"
   THEN << "U","s","e","r" >>
   ELSE << "A","s","s","i","s","t","a","n","t" >>)
  \o << ":"," " >> \o msg.text

\* conversationHistory.slice(-10).map(...).join('\n')
Context(conversationHistory) ==
  LET window == SliceTail(conversationHistory, ContextWindow)
  IN  Join([i \in 1..Len(window) |-> ContextLine(window[i])], << "\n" >>)

\* A payload composed from a history that already holds the triggering message.
FullMessageEchoed(conversationHistory, messageText) ==
  LET echoed == Append(conversationHistory, [ sender |-> "user", text |-> messageText ])
      context == Context(echoed)
  IN  context \o << "\n","U","s","e","r",":"," " >> \o messageText

\* context ? `${context}\nUser: ${messageText}` : messageText
FullMessage(conversationHistory, messageText) ==
  LET context == Context(conversationHistory)
  IN  IF Truthy(context)
      THEN context \o << "\n","U","s","e","r",":"," " >> \o messageText
      ELSE messageText

\* The body of the POST to /api/agent.
Request(fullMessage, sessionId) ==
  [ message |-> fullMessage, agent_id |-> AGENT_ID, user_id |-> USER_ID,
    session_id |-> sessionId ]

\* ------------------------------------------------- gateway responses
\* data.response: an object with optional result / answer / response fields,
\* a plain string, or absent.
ResponseObject(result, answer, response) ==
  [ kind |-> "object", str |-> Undefined,
    result |-> result, answer |-> answer, response |-> response ]

ResponseString(s) ==
  [ kind |-> "string", str |-> s,
    result |-> Undefined, answer |-> Undefined, response |-> Undefined ]

ResponseAbsent ==
  [ kind |-> "undefined", str |-> Undefined,
    result |-> Undefined, answer |-> Undefined, response |-> Undefined ]

\* The agent text chosen from the parsed response body.
AgentResponseText(data) ==
  IF data.success
  THEN Or(data.response.result,
       Or(data.response.answer,
       Or(data.response.response,
       Or(IF data.response.kind = "string" THEN data.response.str ELSE Null,
       Or(data.raw_response,
          NO_RESPONSE)))))
  ELSE Or(data.raw_response, ERROR_PROCESSING)

YO == << "Y","o" >>

\* Response bodies the endpoint answers with.
Responses ==
  { [ success |-> TRUE, response |-> ResponseObject(YO, Undefined, Undefined),
      raw_response |-> Undefined ] }

\* ------------------------------------------------------ persistence
\* The value of localStorage['chatbot_conversations']: no item, a text that is
\* no JSON, or the JSON text of a document.  JSON is lossless on documents made
\* of strings, arrays and plain objects, which is all the store ever holds.
NoItem == [ kind |-> "absent", doc |-> << >> ]
Garbage == [ kind |-> "garbage", doc |-> << >> ]

\* JSON.stringify(conversations)
JSONstringify(convs) == [ kind |-> "json", doc |-> convs ]

\* JSON.parse succeeds on the text
Parseable(text) == text.kind = "json"

\* JSON.parse(text), when it succeeds
JSONparse(text) == text.doc

\* The second effect: write the collection through, unless it is empty.
SaveEffect(convs, stored) ==
  IF Len(convs) > 0 THEN JSONstringify(convs) ELSE stored

\* ------------------------------------------------------------- state
\* Event handlers and the continuation of sendMessage after its await each run
\* to completion against the state of the latest render, effects included.
VARIABLES
  phase,                  \* "mounting": rendered, effects not yet run;
                          \* "running"; "crashed": an effect threw
  conversations,          \* useState<Conversation[]>([])
  currentConversationId,  \* useState<string | null>(null)
  inputValue,             \* useState('')
  isLoading,              \* useState(false)
  searchQuery,            \* useState('')
  storage,                \* localStorage['chatbot_conversations']
  now,                    \* the reading Date.now() returns
  pending,                \* calls of sendMessage suspended at await fetch(...),
                          \* each with the key of the conversation that was
                          \* active when it was made (history)
  keys,                   \* history: one key per entry of conversations, telling
                          \* the entries apart when their ids coincide; a key a
                          \* suspended call holds is not given to a new entry
  spent,                  \* history: number of creating steps taken so far
  last                    \* history: what the step that led here did: called
                          \* sendMessage with a text, resolved or rejected a
                          \* suspended call, created, selected or deleted the
                          \* conversation with an id, or something else

vars ==
  << phase, conversations, currentConversationId, inputValue, isLoading,
     searchQuery, storage, now, pending, keys, spent, last >>

Other == [ op |-> "other", text |-> EmptyString ]

Called(messageText) == [ op |-> "call", text |-> messageText ]

Created(id) == [ op |-> "create", text |-> id ]

Selected(id) == [ op |-> "select", text |-> id ]

Deleted(id) == [ op |-> "delete", text |-> id ]

Resolved(data) == [ op |-> "resolve", text |-> EmptyString, data |-> data ]

\* The smallest key no entry of ks carries.
FreshKey(ks) ==
  CHOOSE k \in 1..(Len(ks) + 1) :
    /\ \A i \in 1..Len(ks) : ks[i] # k
    /\ \A j \in 1..(k - 1) : \E i \in 1..Len(ks) : ks[i] = j

\* The key of the entry conversations.find(c => c.id === id) returns, or 0
\* when it returns none.
KeyOf(convs, ks, id) ==
  IF \E i \in 1..Len(convs) : convs[i].id = id
  THEN ks[CHOOSE i \in 1..Len(convs) :
            /\ convs[i].id = id
            /\ \A j \in 1..(i - 1) : convs[j].id # id]
  ELSE 0

\* useState initial values; the stored item is whatever an earlier session,
\* or anything else writing the key, left there.
Init ==
  /\ phase = "mounting"
  /\ conversations = << >>
  /\ currentConversationId = Null
  /\ inputValue = EmptyString
  /\ isLoading = FALSE
  /\ searchQuery = EmptyString
  /\ storage \in { NoItem, Garbage }
  /\ now = 0
  /\ pending = << >>
  /\ keys = << >>
  /\ spent = 0
  /\ last = Other

\* const currentConversation = conversations.find(...) is truthy
HasCurrentConversation ==
  \E i \in 1..Len(conversations) : conversations[i].id = currentConversationId

\* conversations.filter(conv => title.toLowerCase().includes(query.toLowerCase())),
\* as the positions it keeps.
FilteredIndexes(convs, query) ==
  { i \in 1..Len(convs) :
      Includes(ToLowerCase(convs[i].title), ToLowerCase(query)) }

\* A filter with the test the wrong way round.
KeptIndexesInverted(convs, id) == { i \in 1..Len(convs) : convs[i].id = id }

\* The positions conversations.filter(c => c.id !== id) keeps.
KeptIndexes(convs, id) == { i \in 1..Len(convs) : convs[i].id # id }

\* The entries of a sequence at the positions in idx, in order.
RECURSIVE Pick(_, _, _)
Pick(a, idx, from) ==
  IF from > Len(a) THEN << >>
  ELSE (IF from \in idx THEN << a[from] >> ELSE << >>) \o Pick(a, idx, from + 1)

\* filteredConversations
FilteredConversations(convs, query) == Pick(convs, FilteredIndexes(convs, query), 1)

\* The first effect, then the second, after the first render.
Mount ==
  /\ phase = "mounting"
  /\ last' = Other
  /\ IF storage = NoItem
     THEN /\ phase' = "running"
          /\ UNCHANGED << conversations, currentConversationId, storage, keys >>
     ELSE IF ~Parseable(storage)
     THEN /\ phase' = "crashed"
          /\ UNCHANGED << conversations, currentConversationId, storage, keys >>
     ELSE LET parsed == JSONparse(storage)
          IN  /\ phase' = "running"
              /\ conversations' = parsed
              /\ currentConversationId' =
                   IF Len(parsed) > 0 THEN parsed[1].id ELSE Null
              /\ storage' = SaveEffect(parsed, storage)
              /\ keys' = [i \in 1..Len(parsed) |-> i]
  /\ UNCHANGED << inputValue, isLoading, searchQuery, now, pending, spent >>

\* The page is reloaded: component state and suspended calls are gone, the
\* stored item stays.
Restart ==
  /\ phase # "mounting"
  /\ spent < MaxSteps
  /\ spent' = spent + 1
  /\ phase' = "mounting"
  /\ conversations' = << >>
  /\ currentConversationId' = Null
  /\ inputValue' = EmptyString
  /\ isLoading' = FALSE
  /\ searchQuery' = EmptyString
  /\ pending' = << >>
  /\ keys' = << >>
  /\ last' = Other
  /\ UNCHANGED << storage, now >>

\* Time passes.
Tick ==
  /\ spent < MaxSteps
  /\ spent' = spent + 1
  /\ now' = now + 1
  /\ last' = Other
  /\ UNCHANGED << phase, conversations, currentConversationId, inputValue, isLoading,
                  searchQuery, storage, pending, keys >>

\* A collection with the new conversation behind the others.
WithNewConversationLast(convs, newConversation) == Append(convs, newConversation)

\* [newConversation, ...conversations]
WithNewConversation(convs, newConversation) == << newConversation >> \o convs

\* onClick of either New Chat button.
CreateNewConversation ==
  /\ phase = "running"
  /\ spent < MaxSteps
  /\ spent' = spent + 1
  /\ LET newConversation == NewConversation(now)
     IN  /\ conversations' = WithNewConversation(conversations, newConversation)
         /\ currentConversationId' = newConversation.id
  /\ inputValue' = EmptyString
  /\ storage' = SaveEffect(conversations', storage)
  /\ keys' = << FreshKey(keys \o [i \in 1..Len(pending) |-> pending[i].key]) >> \o keys
  /\ last' = Created(NumToString(now))
  /\ UNCHANGED << phase, isLoading, searchQuery, now, pending >>

\* onClick of an entry of the rendered (filtered) list.
SelectConversation(i) ==
  /\ phase = "running"
  /\ i \in FilteredIndexes(conversations, searchQuery)
  /\ currentConversationId' = conversations[i].id
  /\ last' = Selected(conversations[i].id)
  /\ UNCHANGED << phase, conversations, inputValue, isLoading, searchQuery, storage,
                  now, pending, keys, spent >>

\* onChange of the search box.
SetSearchQuery(q) ==
  /\ phase = "running"
  /\ searchQuery' = q
  /\ last' = Other
  /\ UNCHANGED << phase, conversations, currentConversationId, inputValue, isLoading,
                  storage, now, pending, keys, spent >>

\* The collection deleteConversation(id) sets.
Updated(convs, id) == Pick(convs, KeptIndexes(convs, id), 1)

\* A delete that never moves the active pointer.
PointerAfterDeleteKept(current, updated, id) == current

\* The active pointer deleteConversation(id) leaves.
PointerAfterDelete(current, updated, id) ==
  IF current = id
  THEN (IF Len(updated) > 0 THEN updated[1].id ELSE Null)
  ELSE current

\* onClick of the delete button of an entry of the rendered (filtered) list.
DeleteConversation(i) ==
  /\ phase = "running"
  /\ i \in FilteredIndexes(conversations, searchQuery)
  /\ LET id == conversations[i].id
         updated == Updated(conversations, id)
     IN  /\ conversations' = updated
         /\ currentConversationId' =
              PointerAfterDelete(currentConversationId, updated, id)
         /\ keys' = Pick(keys, KeptIndexes(conversations, id), 1)
  /\ storage' = SaveEffect(conversations', storage)
  /\ last' = Deleted(conversations[i].id)
  /\ UNCHANGED << phase, inputValue, isLoading, searchQuery, now, pending, spent >>

\* onChange of the message input, rendered when a conversation is selected
\* and enabled when no send is in progress.
TypeInput(t) ==
  /\ phase = "running"
  /\ Truthy(currentConversationId)
  /\ ~isLoading
  /\ inputValue' = t
  /\ last' = Other
  /\ UNCHANGED << phase, conversations, currentConversationId, isLoading, searchQuery,
                  storage, now, pending, keys, spent >>

\* An early return that tests the text without trimming it.
DeclinedUntrimmed(messageText, current, loading) ==
  ~Truthy(messageText) \/ ~Truthy(current)

\* if (!messageText.trim() || !currentConversationId) return
Declined(messageText, current, loading) ==
  ~Truthy(Trim(messageText)) \/ ~Truthy(current)

\* A continuation that never clears the flag.
LoadingLeftSet == TRUE

\* The value finally { setIsLoading(false) } leaves in isLoading.
LoadingAfterSettle == FALSE

\* sendMessage(messageText) up to its await: the early return, or the user
\* append, the cleared input and the request.
SendMessage(messageText) ==
  IF Declined(messageText, currentConversationId, isLoading)
  THEN UNCHANGED << conversations, inputValue, isLoading, storage, pending, spent >>
  ELSE /\ spent < MaxSteps
       /\ spent' = spent + 1
       /\ isLoading' = TRUE
       /\ conversations' =
            MapUser(conversations, currentConversationId,
                    UserMessage(now, messageText), messageText)
       /\ inputValue' = EmptyString
       /\ pending' =
            Append(pending,
                   [ convId |-> currentConversationId,
                     key |-> KeyOf(conversations, keys, currentConversationId),
                     messageText |-> messageText,
                     request |->
                       Request(FullMessage(HistoryOf(conversations,
                                                     currentConversationId),
                                           messageText),
                               currentConversationId) ])
       /\ storage' = SaveEffect(conversations', storage)

SendFrame == UNCHANGED << phase, currentConversationId, searchQuery, now, keys >>

\* handleSubmit, and handleKeyDown on Enter: reachable while the input is
\* rendered and enabled.
HandleSubmit ==
  /\ phase = "running"
  /\ Truthy(currentConversationId)
  /\ ~isLoading
  /\ IF Truthy(Trim(inputValue))
     THEN /\ SendMessage(inputValue)
          /\ last' = Called(inputValue)
     ELSE /\ UNCHANGED << conversations, inputValue, isLoading, storage, pending, spent >>
          /\ last' = Other
  /\ SendFrame

\* onClick of a starter prompt: rendered while the selected conversation has no
\* message, enabled when no send is in progress.
ClickStarterPrompt(prompt) ==
  /\ phase = "running"
  /\ Truthy(currentConversationId)
  /\ HasCurrentConversation
  /\ Len(HistoryOf(conversations, currentConversationId)) = 0
  /\ ~isLoading
  /\ SendMessage(prompt)
  /\ last' = Called(prompt)
  /\ SendFrame

\* sendMessage called with the callers' guards out of the way.
CallSendMessage(messageText) ==
  /\ phase = "running"
  /\ SendMessage(messageText)
  /\ last' = Called(messageText)
  /\ SendFrame

RemoveAt(a, i) == SubSeq(a, 1, i - 1) \o SubSeq(a, i + 1, Len(a))

\* The continuation of the i-th suspended call when fetch and response.json()
\* succeed with body data.
Resolve(i, data) ==
  /\ phase = "running"
  /\ i \in 1..Len(pending)
  /\ LET agentResponseText == AgentResponseText(data)
     IN  conversations' =
           MapAgent(conversations, pending[i].convId,
                    AgentMessage(now, agentResponseText), agentResponseText)
  /\ isLoading' = LoadingAfterSettle
  /\ pending' = RemoveAt(pending, i)
  /\ storage' = SaveEffect(conversations', storage)
  /\ last' = Resolved(data)
  /\ UNCHANGED << phase, currentConversationId, inputValue, searchQuery, now, keys,
                  spent >>

\* The continuation of the i-th suspended call when fetch rejects or the body
\* cannot be read: the catch block.
Reject(i) ==
  /\ phase = "running"
  /\ i \in 1..Len(pending)
  /\ conversations' = MapError(conversations, pending[i].convId, ErrorMessage(now))
  /\ isLoading' = LoadingAfterSettle
  /\ pending' = RemoveAt(pending, i)
  /\ storage' = SaveEffect(conversations', storage)
  /\ last' = [ op |-> "reject", text |-> EmptyString ]
  /\ UNCHANGED << phase, currentConversationId, inputValue, searchQuery, now, keys,
                  spent >>

Settle == \E i \in 1..Len(pending) : (\E data \in Responses : Resolve(i, data)) \/ Reject(i)

Next ==
  \/ Mount
  \/ Restart
  \/ Tick
  \/ CreateNewConversation
  \/ \E i \in 1..Len(conversations) : SelectConversation(i)
  \/ \E q \in Queries : SetSearchQuery(q)
  \/ \E i \in 1..Len(conversations) : DeleteConversation(i)
  \/ \E t \in InputTexts : TypeInput(t)
  \/ HandleSubmit
  \/ \E prompt \in ClickedPrompts : ClickStarterPrompt(prompt)
  \/ \E t \in CallTexts : CallSendMessage(t)
  \/ \E i \in 1..Len(pending) : \E data \in Responses : Resolve(i, data)
  \/ \E i \in 1..Len(pending) : Reject(i)

Spec == Init /\ [][Next]_vars

\* The gateway call of a suspended send eventually resolves or rejects.
FairSpec == Spec /\ WF_vars(Settle)

\* ------------------------------------------- the composer on its own
\* The senders of the messages a stored conversation can hold: turns of user
\* and agent; user messages whose calls were cut off by a reload; one user
\* message and follow-ups of several calls.
SenderPatterns == { "turns", "unanswered", "burst" }

SenderAt(pattern, k) ==
  IF pattern = "turns" THEN (IF k % 2 = 1 THEN "user" ELSE "agent")
  ELSE IF pattern = "unanswered" THEN "user"
  ELSE (IF k = 1 THEN "user" ELSE "agent")

\* The k-th message of a stored conversation, appended at clock reading 3k;
\* its text tells its position.
StoredMessage(pattern, k) ==
  [ id |-> NumToString(IF SenderAt(pattern, k) = "user" THEN 3 * k ELSE 3 * k + 1),
    text |-> << "m" >> \o NumToString(k),
    sender |-> SenderAt(pattern, k),
    timestamp |-> ToISOString(3 * k) ]

\* A conversation created at reading 0 that has had n messages appended.
StoredConversation(pattern, n) ==
  LET messages == [k \in 1..n |-> StoredMessage(pattern, k)]
  IN  [ id |-> NumToString(0),
        title |-> IF n = 0 THEN NEW_CONVERSATION
                  ELSE SliceHead(messages[1].text, TitleLen),
        messages |-> messages,
        createdAt |-> ToISOString(0),
        lastMessage |-> IF n = 0 THEN EmptyString ELSE messages[n].text ]

\* The page running on a store that holds one conversation of up to
\* MaxHistory messages, selected on load.
ContextInit ==
  /\ phase = "running"
  /\ \E pattern \in SenderPatterns : \E n \in 0..MaxHistory :
       conversations = << StoredConversation(pattern, n) >>
  /\ currentConversationId = NumToString(0)
  /\ inputValue = EmptyString
  /\ isLoading = FALSE
  /\ searchQuery = EmptyString
  /\ storage = JSONstringify(conversations)
  /\ now = 3 * MaxHistory + 3
  /\ pending = << >>
  /\ keys = << 1 >>
  /\ spent = 0
  /\ last = Other

ContextNext ==
  \/ \E t \in CallTexts : CallSendMessage(t)
  \/ \E i \in 1..Len(pending) : \E data \in Responses : Resolve(i, data)
  \/ \E i \in 1..Len(pending) : Reject(i)

ContextSpec == ContextInit /\ [][ContextNext]_vars

\* ------------------------------------------- the filter on its own
HELLO == << "H","E","L","L","O" >>

\* Titles of stored conversations: the title of a conversation without
\* messages, and first messages.
FilterTitles ==
  { NEW_CONVERSATION,
    << "H","e","l","l","o" >>,
    << "h","e","l","l","o"," ","W","o","r","l","d" >>,
    << "H","E","L","P" >> }

\* Texts typed into the search box.
FilterQueries ==
  { EmptyString, HELLO, << "h","e","l","l","o" >>, << "h","E","l","L","o" >>,
    << "O"," ","w" >>, << "n","e","w" >>, << "x" >> }

\* A stored conversation with a title: created at reading t and, unless the
\* title is that of a new conversation, sent the title as its first message.
TitledConversation(title, t) ==
  IF title = NEW_CONVERSATION
  THEN NewConversation(t)
  ELSE WithUserMessage(NewConversation(t), UserMessage(t, title), title)

\* The page running on a store of up to MaxStored conversations, newest
\* first, the head selected on load.
FilterInit ==
  /\ phase = "running"
  /\ \E n \in 0..MaxStored : \E titles \in [1..n -> FilterTitles] :
       conversations = [i \in 1..n |-> TitledConversation(titles[i], n - i)]
  /\ currentConversationId =
       IF Len(conversations) > 0 THEN conversations[1].id ELSE Null
  /\ inputValue = EmptyString
  /\ isLoading = FALSE
  /\ searchQuery = EmptyString
  /\ storage = IF Len(conversations) > 0 THEN JSONstringify(conversations) ELSE NoItem
  /\ now = MaxStored
  /\ pending = << >>
  /\ keys = [i \in 1..Len(conversations) |-> i]
  /\ spent = 0
  /\ last = Other

FilterNext ==
  \/ \E q \in FilterQueries : SetSearchQuery(q)
  \/ \E i \in 1..Len(conversations) : SelectConversation(i)
  \/ \E i \in 1..Len(conversations) : DeleteConversation(i)

FilterSpec == FilterInit /\ [][FilterNext]_vars

\* -------------------------------------- the normalization on its own
\* What a field of the parsed body can hold: nothing, '', a text, or a value
\* that is no string.
FieldValues(text) == { Undefined, EmptyString, text, Structured }

\* The bodies response.json() can yield: any JSON the endpoint answers with.
ResponseBodies ==
  { [ success |-> success, response |-> response, raw_response |-> raw ] :
      success \in BOOLEAN,
      response \in
        { ResponseAbsent, ResponseString(EmptyString), ResponseString(<< "S" >>) }
        \cup { ResponseObject(result, answer, inner) :
                 result \in FieldValues(<< "R" >>),
                 answer \in FieldValues(<< "A" >>),
                 inner \in FieldValues(<< "P" >>) },
      raw \in FieldValues(<< "W" >>) }

\* The page right after createNewConversation() and sendMessage(LONG) at
\* clock reading 0: the call is suspended at the gateway.
NormalizeInit ==
  /\ phase = "running"
  /\ conversations =
       MapUser(<< NewConversation(0) >>, NumToString(0), UserMessage(0, LONG), LONG)
  /\ currentConversationId = NumToString(0)
  /\ inputValue = EmptyString
  /\ isLoading = TRUE
  /\ searchQuery = EmptyString
  /\ storage = JSONstringify(conversations)
  /\ now = 0
  /\ pending =
       << [ convId |-> NumToString(0), key |-> 1, messageText |-> LONG,
            request |-> Request(FullMessage(<< >>, LONG), NumToString(0)) ] >>
  /\ keys = << 1 >>
  /\ spent = 2
  /\ last = Called(LONG)

NormalizeNext ==
  \/ \E i \in 1..Len(pending) : \E data \in ResponseBodies : Resolve(i, data)
  \/ \E i \in 1..Len(pending) : Reject(i)

NormalizeSpec == NormalizeInit /\ [][NormalizeNext]_vars

\* ------------------------------------------------- reading a step
Running == phase = "running"

\* The step is a call of sendMessage that got past the early return.
AcceptStep == Running /\ Len(pending') = Len(pending) + 1

\* The step is the continuation of a suspended call.
SettleStep == Running /\ phase' = "running" /\ Len(pending') = Len(pending) - 1

\* The keys of the conversations that are in the collection before and after
\* the step.
Staying ==
  { keys[i] : i \in 1..Len(keys) } \cap { keys'[i] : i \in 1..Len(keys') }

\* The conversation carrying key k before the step, and after it.
Before(k) == conversations[CHOOSE i \in 1..Len(keys) : keys[i] = k]

After(k) == conversations'[CHOOSE i \in 1..Len(keys') : keys'[i] = k]

\* The last entry of a non-empty sequence.
Final(a) == a[Len(a)]

\* The step appends exactly one message, by sender, to every conversation with
\* the given id and changes no other conversation.
AppendsOneTo(id, sender) ==
  /\ Len(conversations') = Len(conversations)
  /\ keys' = keys
  /\ \A i \in 1..Len(conversations) :
       IF conversations[i].id = id
       THEN /\ Len(conversations'[i].messages) = Len(conversations[i].messages) + 1
            /\ SubSeq(conversations'[i].messages, 1, Len(conversations[i].messages))
                 = conversations[i].messages
            /\ Final(conversations'[i].messages).sender = sender
       ELSE conversations'[i] = conversations[i]

\* ---------------------------------------------------------------- C1
\* C1: a call of sendMessage made while a send is in progress (isLoading) is
\* rejected by sendMessage: it appends nothing, issues no request and leaves the
\* collection, the suspended calls and the busy flag as they are; at most one
\* call is ever suspended at the gateway.
C1_SendWhileSendingRejected ==
  /\ [](Len(pending) <= 1)
  /\ [][ (last'.op = "call" /\ isLoading)
         => /\ conversations' = conversations
            /\ pending' = pending
            /\ isLoading' = isLoading ]_vars

C3_BusyFlagRelease ==
  /\ (pending # << >>) ~> (pending = << >>)
  /\ isLoading ~> ~isLoading
  /\ [][ SettleStep => ~isLoading' ]_vars

\* A send has failed and the flag is clear again.
C3_Witness ==
  /\ Running
  /\ last.op = "reject"
  /\ pending = << >>
  /\ ~isLoading
  /\ \E i \in 1..Len(conversations) : Len(conversations[i].messages) = 2

\* ---------------------------------------------------------------- C4
\* C4: after every step that changes the collection while the page runs, be
\* the result empty or not, the stored item is the serialization of the
\* collection.
C4_WriteThrough ==
  [][ (Running /\ phase' = "running" /\ conversations' # conversations)
      => storage' = JSONstringify(conversations') ]_vars

\* ---------------------------------------------------------------- C5
\* C5: when the stored item is absent or cannot be parsed, startup ends with
\* the page running, the collection empty and no conversation selected.
C5_StartupRecovers ==
  [][ (phase = "mounting" /\ phase' # "mounting" /\ ~Parseable(storage))
      => /\ phase' = "running"
         /\ conversations' = << >>
         /\ currentConversationId' = Null ]_vars

\* ---------------------------------------------------------------- C6
\* C6 as stated: lastMessage of every conversation is the text of its final
\* message, or '' when it has none.
C6_LastMessageMirror ==
  \A i \in 1..Len(conversations) :
    conversations[i].lastMessage =
      IF conversations[i].messages = << >>
      THEN EmptyString
      ELSE Final(conversations[i].messages).text

\* C6 as amended: lastMessage of every conversation is '' when it has no
\* message, and otherwise the text of its final message or, when that message
\* is the error placeholder, the marker 'Error'.
C6_LastMessageMirrorOrMarker ==
  \A i \in 1..Len(conversations) :
    LET conv == conversations[i]
    IN  IF conv.messages = << >>
        THEN conv.lastMessage = EmptyString
        ELSE \/ conv.lastMessage = Final(conv.messages).text
             \/ /\ Final(conv.messages).text = APOLOGY
                /\ Final(conv.messages).sender = "agent"
                /\ conv.lastMessage = ERROR_MARKER

\* A conversation ends with the error placeholder and previews the marker,
\* and the user has typed the next message.
C6_Witness ==
  /\ Running
  /\ inputValue = LONG
  /\ \E i \in 1..Len(conversations) :
       /\ conversations[i].id = currentConversationId
       /\ Len(conversations[i].messages) = 2
       /\ Final(conversations[i].messages).text = APOLOGY
       /\ conversations[i].lastMessage = ERROR_MARKER

\* ---------------------------------------------------------------- C7
\* C7: a conversation without messages is titled 'New Conversation'; one with
\* messages is titled by the first 50 characters of its first message, a user
\* message; and across every step a conversation that stays keeps its title,
\* unless the step appends its first message.
C7_TitleFreeze ==
  /\ [](\A i \in 1..Len(conversations) :
          LET conv == conversations[i]
          IN  IF conv.messages = << >>
              THEN conv.title = NEW_CONVERSATION
              ELSE /\ conv.messages[1].sender = "user"
                   /\ conv.title = SliceHead(conv.messages[1].text, TitleLen))
  /\ [][ \A k \in Staying :
           IF Before(k).messages = << >> /\ After(k).messages # << >>
           THEN After(k).title = SliceHead(After(k).messages[1].text, TitleLen)
           ELSE After(k).title = Before(k).title ]_vars

\* A conversation whose first message is longer than 50 characters has had a
\* second user message and a reply appended, and is titled by the first 50.
C7_Witness ==
  \E i \in 1..Len(conversations) :
    LET conv == conversations[i]
    IN  /\ Len(conv.messages) = 3
        /\ conv.messages[1].text = LONG
        /\ conv.messages[2].sender = "user"
        /\ conv.messages[3].sender = "agent"
        /\ Len(conv.title) = TitleLen
        /\ conv.title # LONG

\* ---------------------------------------------------------------- C8
\* C8: across every step, the messages of a conversation that stays are
\* unchanged or extended by exactly one message behind the unchanged old ones.
C8_AppendOnly ==
  [][ \A k \in Staying :
        \/ After(k).messages = Before(k).messages
        \/ /\ Len(After(k).messages) = Len(Before(k).messages) + 1
           /\ SubSeq(After(k).messages, 1, Len(Before(k).messages))
                = Before(k).messages ]_vars

\* A conversation holds a user message, the error placeholder behind it and a
\* further user message behind that.
C8_Witness ==
  \E i \in 1..Len(conversations) :
    LET conv == conversations[i]
    IN  /\ Len(conv.messages) = 3
        /\ conv.messages[1].sender = "user"
        /\ conv.messages[2].text = APOLOGY
        /\ conv.messages[3].sender = "user"

\* ---------------------------------------------------------------- C9
\* C9: the step taken when the gateway call of a suspended send fails appends
\* exactly one agent message with the apology text to the target conversation,
\* sets its lastMessage to 'Error', changes no other conversation, clears the
\* busy flag and leaves the page running.
C9_ErrorBranch ==
  [][ last'.op = "reject"
      => /\ phase' = "running"
         /\ ~isLoading'
         /\ \E j \in 1..Len(pending) :
              /\ pending' = RemoveAt(pending, j)
              /\ AppendsOneTo(pending[j].convId, "agent")
              /\ \A i \in 1..Len(conversations) :
                   conversations[i].id = pending[j].convId
                     => /\ Final(conversations'[i].messages).text = APOLOGY
                        /\ conversations'[i].lastMessage = ERROR_MARKER ]_vars

\* The gateway call of a send has just failed and its conversation ends with
\* the apology.
C9_Witness ==
  /\ last.op = "reject"
  /\ ~isLoading
  /\ \E i \in 1..Len(conversations) :
       /\ Len(conversations[i].messages) = 2
       /\ conversations[i].messages[2].text = APOLOGY
       /\ conversations[i].lastMessage = ERROR_MARKER
       /\ conversations[i].title = SliceHead(LONG, TitleLen)

\* --------------------------------------------------------------- C10
\* C10: a call of sendMessage with a text that is blank once trimmed, or with
\* no conversation selected, changes nothing: not the collection, the
\* suspended calls, the busy flag, the input buffer or the stored item.
C10_EmptyInputRejected ==
  [][ (last'.op = "call" /\ (Trim(last'.text) = EmptyString \/ currentConversationId = Null))
      => UNCHANGED << conversations, pending, isLoading, inputValue, storage,
                      currentConversationId >> ]_vars

\* sendMessage was just called with a blank text while the input buffer held a
\* text, which is still there.
C10_Witness ==
  /\ last.op = "call"
  /\ last.text # EmptyString
  /\ Trim(last.text) = EmptyString
  /\ inputValue = LONG
  /\ ~isLoading
  /\ pending = << >>

C12_Create ==
  [][ last'.op = "create"
      => /\ Len(conversations') = Len(conversations) + 1
         /\ conversations'[1].id = last'.text
         /\ conversations'[1].messages = << >>
         /\ conversations'[1].title = NEW_CONVERSATION
         /\ conversations'[1].lastMessage = EmptyString
         /\ currentConversationId' = conversations'[1].id
         /\ Tail(conversations') = conversations ]_vars

\* A conversation was just created while the send of another one was
\* suspended, and it heads the collection.
C12_Witness ==
  /\ last.op = "create"
  /\ isLoading
  /\ Len(conversations) = 2
  /\ conversations[1].messages = << >>
  /\ conversations[2].messages # << >>
  /\ currentConversationId = conversations[1].id

\* --------------------------------------------------------------- C13
\* The number of entries of s equal to c.
CountOf(s, c) == Cardinality({ i \in 1..Len(s) : s[i] = c })

UserLine(text) == << "U","s","e","r",":"," " >> \o text

\* C13: the payload of an accepted send is composed from the messages the
\* target conversation held just before the send's user message was appended
\* to it: with n > 0 such messages it has one line for each of the last
\* min(n, 10) of them and one final line 'User: <text>' for the triggering
\* message, which is thus rendered once and not among the history lines; with
\* n = 0 it is the text itself.
C13_ContextSnapshot ==
  [][ AcceptStep
      => LET call == Final(pending')
             payload == call.request.message
         IN  \E k \in Staying :
               LET history == Before(k).messages
                   n == Len(history)
               IN  /\ Before(k).id = call.convId
                   /\ Len(After(k).messages) = n + 1
                   /\ Final(After(k).messages).text = call.messageText
                   /\ payload = FullMessage(history, call.messageText)
                   /\ IF n = 0
                      THEN payload = call.messageText
                      ELSE /\ CountOf(payload, "\n")
                                = IF n < ContextWindow THEN n ELSE ContextWindow
                           /\ SubSeq(payload,
                                     Len(payload) - Len(call.messageText) - 6,
                                     Len(payload))
                                = << "\n" >> \o UserLine(call.messageText) ]_vars

\* A second message was just sent in a conversation that holds a user message
\* and its reply, and the payload has the two history lines before it.
C13_Witness ==
  /\ last.op = "call"
  /\ Len(pending) = 1
  /\ pending[1].request.message # pending[1].messageText
  /\ CountOf(pending[1].request.message, "\n") = 2
  /\ \E i \in 1..Len(conversations) :
       /\ conversations[i].id = pending[1].convId
       /\ Len(conversations[i].messages) = 3

\* --------------------------------------------------------------- C14
RoleOf(sender) ==
  IF sender = "user"
  THEN << "U","s","e","r" >>
  ELSE << "A","s","s","i","s","t","a","n","t" >>

\* The lines of the messages of history from position from on, each closed
\* by a newline.
RECURSIVE LinesFrom(_, _)
LinesFrom(history, from) ==
  IF from > Len(history) THEN << >>
  ELSE RoleOf(history[from].sender) \o << ":"," " >> \o history[from].text
       \o << "\n" >> \o LinesFrom(history, from + 1)

\* C14: the payload composed for a conversation holding n messages and a new
\* text t is t itself when n = 0; otherwise it is the lines of the last
\* min(n, 10) messages, in order, 'User: <text>' for a user message and
\* 'Assistant: <text>' for an agent message, each followed by a newline, and
\* then the line 'User: t'; it never holds more than 10 earlier messages.
C14_BuildContext ==
  [][ AcceptStep
      => LET call == Final(pending')
             payload == call.request.message
             history == conversations[1].messages
             n == Len(history)
         IN  /\ payload =
                  IF n = 0 THEN call.messageText
                  ELSE LinesFrom(history, IF n > 10 THEN n - 9 ELSE 1)
                       \o UserLine(call.messageText)
             /\ CountOf(payload, "\n") = IF n < 10 THEN n ELSE 10 ]_vars

\* A message was just sent in a conversation that held 12 messages, and the
\* payload has 10 history lines, the first for the third message.
C14_Witness ==
  /\ last.op = "call"
  /\ Len(pending) = 1
  /\ Len(conversations[1].messages) = 13
  /\ CountOf(pending[1].request.message, "\n") = 10
  /\ SubSeq(pending[1].request.message, 1, 8)
       = << "U","s","e","r",":"," ","m","3" >>

\* --------------------------------------------------------------- C15
\* A value counts as empty when it is absent, null or ''.
NonEmpty(v) == v # Undefined /\ v # Null /\ v # EmptyString

\* The first non-empty entry of a sequence of values, or otherwise.
RECURSIVE FirstNonEmpty(_, _)
FirstNonEmpty(values, otherwise) ==
  IF values = << >> THEN otherwise
  ELSE IF NonEmpty(Head(values)) THEN Head(values)
  ELSE FirstNonEmpty(Tail(values), otherwise)

\* The order of preference among the fields of a successful body.
Preference(data) ==
  << data.response.result, data.response.answer, data.response.response,
     (IF data.response.kind = "string" THEN data.response.str ELSE Undefined),
     data.raw_response >>

\* C15: the text of the agent message appended for a parsed body is, when the
\* body is marked successful, the first non-empty of response.result,
\* response.answer, response.response, the response itself if it is a string,
\* and raw_response, or else 'No response received'; when it is not marked
\* successful, raw_response if non-empty, or else 'Error processing request';
\* and it is a string in every case.
C15_Normalization ==
  [][ last'.op = "resolve"
      => LET data == last'.data
             text == Final(conversations'[1].messages).text
         IN  /\ text = IF data.success
                       THEN FirstNonEmpty(Preference(data), NO_RESPONSE)
                       ELSE FirstNonEmpty(<< data.raw_response >>, ERROR_PROCESSING)
             /\ IsString(text) ]_vars

\* The order of preference alone, without the claim that the text is a
\* string.
C15_PreferenceOrder ==
  [][ last'.op = "resolve"
      => LET data == last'.data
             text == Final(conversations'[1].messages).text
         IN  text = IF data.success
                    THEN FirstNonEmpty(Preference(data), NO_RESPONSE)
                    ELSE FirstNonEmpty(<< data.raw_response >>, ERROR_PROCESSING) ]_vars

\* --------------------------------------------------------------- C16
\* C16: in every state, no two messages of one conversation carry the same
\* id.
C16_MessageIdsUnique ==
  \A c \in 1..Len(conversations) :
    \A i, j \in 1..Len(conversations[c].messages) :
      i # j => conversations[c].messages[i].id # conversations[c].messages[j].id

\* --------------------------------------------------------------- C17
\* C17: in every state in which a call of sendMessage is suspended at the
\* gateway, the busy flag is set.
C17_BusyWhileSuspended ==
  pending # << >> => isLoading

\* --------------------------------------------------------------- C18
\* Two characters are the same letter in either case, or the same character.
SameIgnoringCase(a, b) ==
  \/ a = b
  \/ \E k \in 1..Len(UpperLetters) :
       { a, b } = { UpperLetters[k], LowerLetters[k] }

\* Two texts differ in letter case only.
CaseVariants(q1, q2) ==
  /\ Len(q1) = Len(q2)
  /\ \A k \in 1..Len(q1) : SameIgnoringCase(q1[k], q2[k])

\* The title holds the query at some offset, letter case ignored.
ContainsIgnoringCase(title, query) ==
  \E offset \in 0..(Len(title) - Len(query)) :
    \A k \in 1..Len(query) : SameIgnoringCase(title[offset + k], query[k])

\* C18: the filtered list holds exactly the conversations whose title
\* contains the search query, letter case ignored, in the order of the
\* collection; a query that differs from it in letter case only gives the
\* same list; the empty query gives the whole collection.
C18_Filter ==
  LET shown == FilteredConversations(conversations, searchQuery)
      matching == { i \in 1..Len(conversations) :
                      ContainsIgnoringCase(conversations[i].title, searchQuery) }
  IN  /\ Len(shown) = Cardinality(matching)
      /\ \A i \in matching :
           shown[Cardinality({ j \in matching : j <= i })] = conversations[i]
      /\ \A q \in FilterQueries :
           CaseVariants(q, searchQuery)
             => FilteredConversations(conversations, q) = shown
      /\ searchQuery = EmptyString => shown = conversations

\* The query 'HELLO' shows the second and third of three conversations, whose
\* titles hold it in other letter case, and not the first.
C18_Witness ==
  /\ searchQuery = HELLO
  /\ Len(conversations) = 3
  /\ conversations[1].title = NEW_CONVERSATION
  /\ FilteredConversations(conversations, searchQuery)
       = << conversations[2], conversations[3] >>
  /\ last.op = "select"

\* --------------------------------------------------------------- C19
\* C19: the user message of an accepted send is appended to the conversation
\* that is active when sendMessage is called, and the follow-up of the send
\* (reply or error placeholder) to that same conversation if it is still in
\* the collection, whatever was selected, created or deleted meanwhile; no
\* other conversation is changed by either step.
C19_ReplyRouting ==
  [][ /\ AcceptStep
        => LET k == Final(pending').key
           IN  /\ k \in Staying
               /\ Len(After(k).messages) = Len(Before(k).messages) + 1
               /\ Final(After(k).messages).sender = "user"
               /\ \A other \in Staying \ { k } : After(other) = Before(other)
      /\ SettleStep
        => \E j \in 1..Len(pending) :
             LET k == pending[j].key
             IN  /\ pending' = RemoveAt(pending, j)
                 /\ k \in Staying
                      => /\ Len(After(k).messages) = Len(Before(k).messages) + 1
                         /\ Final(After(k).messages).sender = "agent"
                 /\ \A other \in Staying \ { k } : After(other) = Before(other) ]_vars

\* --------------------------------------------------------------- C20
\* C20: in every state of the running page the active pointer is null or the
\* id of a conversation in the collection; and a step that selects a
\* conversation leaves the collection as it is.
C20_PointerValid ==
  /\ [](Running
         => \/ currentConversationId = Null
            \/ \E i \in 1..Len(conversations) :
                 conversations[i].id = currentConversationId)
  /\ [][ last'.op = "select"
         => /\ conversations' = conversations
            /\ \E i \in 1..Len(conversations) :
                 conversations[i].id = currentConversationId' ]_vars

\* The newer of two conversations was just deleted and the pointer is the id
\* of the older one, which is left.
C20_Witness ==
  /\ Running
  /\ last.op = "delete"
  /\ Len(conversations) = 1
  /\ currentConversationId = conversations[1].id
  /\ conversations[1].createdAt # ToISOString(now)
  /\ last.text = NumToString(now)

====
